---- MODULE Spec2Model ----
(***************************************************************************)
(* A model of the browser session wrapper (solutions/browser_tools.py,     *)
(* class BrowserTools) and of the chat orchestrator's handlers              *)
(* (solutions/chainlit_browser.py: on_message, on_chat_end).               *)
(*                                                                         *)
(* Strings are sequences of one-character strings.  None is 0.  Drivers,   *)
(* browsers and pages are numbered by the driver start that produced them. *)
(*                                                                         *)
(* A handler runs without interruption from one awaited driver call to the *)
(* next; every driver call may succeed or raise, and a call on a driver,   *)
(* browser or page that is no longer live raises.  A call that raises      *)
(* leaves the driver's side as it was; a driver that stops takes its       *)
(* browser and page with it.  extract_content is modelled without          *)
(* selectors, the way on_message calls it; timeouts and the value given to *)
(* fill_form do not change what the session holds and are left out.        *)
(***************************************************************************)
EXTENDS Integers, Sequences, FiniteSets, TLC

(* ------------------------------------------------------------------ *)
(* Bounds of the model                                                 *)
(* ------------------------------------------------------------------ *)

\* Driver starts that may succeed in one run.
MaxGen == 2

\* Responses the session's history may hold.
MaxHistory == 2

\* Pieces an LLM response is put together from.
MaxPieces == 2

(* ------------------------------------------------------------------ *)
(* Strings                                                             *)
(* ------------------------------------------------------------------ *)

NavigateTo == <<"n","a","v","i","g","a","t","e"," ","t","o">>
Click == <<"c","l","i","c","k">>
Fill == <<"f","i","l","l">>
With == <<"w","i","t","h">>
Extract == <<"e","x","t","r","a","c","t">>
Http == <<"h","t","t","p",":","/","/">>
Https == <<"h","t","t","p","s",":","/","/">>

UpperCase == {"C", "F", "H"}

LowerCase == {"a","b","c","d","e","f","g","h","i","j","k","l","m",
              "n","o","p","q","r","s","t","u","v","w","x","y","z"}

Digits == {"0","1","2","3","4","5","6","7","8","9"}

\* str.lower(), character by character.
LowerChar(c) ==
    CASE c = "C" -> "c"
      [] c = "F" -> "f"
      [] c = "H" -> "h"
      [] OTHER -> c

Lower(s) == [i \in 1..Len(s) |-> LowerChar(s[i])]

Min(S) == CHOOSE x \in S : \A y \in S : x <= y

Max(S) == CHOOSE x \in S : \A y \in S : x >= y

\* s[i-1:].startswith(p), with i counted from 1.
MatchAt(s, p, i) ==
    /\ i + Len(p) - 1 <= Len(s)
    /\ \A k \in 1..Len(p) : s[i + k - 1] = p[k]

\* s.startswith(p)
StartsWith(s, p) == MatchAt(s, p, 1)

\* s.find(p) + 1: the first position p occurs at, 0 when it does not.
Find(s, p) ==
    LET hits == {i \in 1..(Len(s) + 1) : MatchAt(s, p, i)}
    IN IF hits = {} THEN 0 ELSE Min(hits)

\* p in s
Contains(s, p) == Find(s, p) # 0

\* s[i-1:], with i counted from 1.
From(s, i) == SubSeq(s, i, Len(s))

\* s.split(sep, 1)
SplitOnce(s, sep) ==
    LET i == Find(s, sep)
    IN IF i = 0 THEN <<s>>
       ELSE <<SubSeq(s, 1, i - 1), From(s, i + Len(sep))>>

\* s.split() is empty: no character of s is other than whitespace.
NoWord(s) == \A i \in 1..Len(s) : s[i] = " "

\* s.split()[0], for a string with a word in it.
FirstWord(s) ==
    LET b == Min({i \in 1..Len(s) : s[i] # " "})
        ends == {i \in b..Len(s) : s[i] = " "}
        e == IF ends = {} THEN Len(s) ELSE Min(ends) - 1
    IN SubSeq(s, b, e)

\* The characters of strip('"`\'., ').
StripChars == {"\"", "`", "'", ".", ",", " "}

\* s.strip('"`\'., ')
Strip(s) ==
    LET keep == {i \in 1..Len(s) : s[i] \notin StripChars}
    IN IF keep = {} THEN <<>> ELSE SubSeq(s, Min(keep), Max(keep))

\* response.strip() is empty
Blank(s) == NoWord(s)

(* ------------------------------------------------------------------ *)
(* URLs: urllib.parse.urlparse as validate_url uses it                 *)
(* ------------------------------------------------------------------ *)

SchemeChars == LowerCase \cup UpperCase \cup Digits \cup {"+", "-", "."}

\* Where the scheme's colon is, 0 when the URL has no scheme: urlparse takes
\* the text before the first ":" as the scheme when it starts with a letter
\* and holds scheme characters only.
SchemeEnd(url) ==
    LET i == Find(url, <<":">>)
    IN IF /\ i > 1
          /\ url[1] \in LowerCase \cup UpperCase
          /\ \A k \in 1..(i - 1) : url[k] \in SchemeChars
       THEN i ELSE 0

UrlScheme(url) ==
    IF SchemeEnd(url) = 0 THEN <<>> ELSE Lower(SubSeq(url, 1, SchemeEnd(url) - 1))

\* The network location: what follows "//" up to the next "/", "?" or "#".
UrlNetloc(url) ==
    LET rest == From(url, SchemeEnd(url) + 1)
        stops == {i \in 3..Len(rest) : rest[i] \in {"/", "?", "#"}}
        e == IF stops = {} THEN Len(rest) ELSE Min(stops) - 1
    IN IF StartsWith(rest, <<"/", "/">>) THEN SubSeq(rest, 3, e) ELSE <<>>

\* urlparse raises ValueError on a network location with one bracket only.
UrlParseRaises(url) ==
    LET n == UrlNetloc(url)
        open == \E i \in 1..Len(n) : n[i] = "["
        close == \E i \in 1..Len(n) : n[i] = "]"
    IN open # close

\* BrowserTools.validate_url
validate_url(url) ==
    IF UrlParseRaises(url) THEN FALSE
    ELSE UrlScheme(url) # <<>> /\ UrlNetloc(url) # <<>>

\* url.startswith(('http://', 'https://'))
HasHttpPrefix(url) == StartsWith(url, Http) \/ StartsWith(url, Https)

\* The URL navigate validates and passes to page.goto.
PrefixedUrl(url) == IF HasHttpPrefix(url) THEN url ELSE Https \o url

(* ------------------------------------------------------------------ *)
(* The orchestrator's reading of an LLM response                       *)
(* ------------------------------------------------------------------ *)

\* What on_message makes of a response: the wrapper operation it invokes
\* ("none" when it invokes none), the operation's argument, and whether
\* taking the argument out of the text raised (IndexError).
NoAction == [op |-> "none", arg |-> <<>>, err |-> FALSE]

ParseError == [op |-> "none", arg |-> <<>>, err |-> TRUE]

Action(o, a) == [op |-> o, arg |-> a, err |-> FALSE]

DispatchNavigate(low) ==
    LET parts == SplitOnce(low, NavigateTo)
        url == Strip(FirstWord(parts[2]))
    IN IF Len(parts) > 1
       THEN IF NoWord(parts[2]) THEN ParseError
            ELSE Action("navigate", IF ~HasHttpPrefix(url) THEN Https \o url ELSE url)
       ELSE NoAction

DispatchClick(low) ==
    LET parts == SplitOnce(low, Click)
    IN IF Len(parts) > 1
       THEN IF NoWord(parts[2]) THEN ParseError
            ELSE Action("click", Strip(FirstWord(parts[2])))
       ELSE NoAction

DispatchFill(low) ==
    LET parts == SplitOnce(SplitOnce(low, Fill)[2], With)
    IN IF Len(parts) = 2 THEN Action("fill", Strip(parts[1])) ELSE NoAction

\* A slip in the chain: "click" is tested before "navigate to".
DispatchClickFirst(response) ==
    LET low == Lower(response)
    IN IF Contains(low, Click) THEN DispatchClick(low)
       ELSE IF Contains(low, NavigateTo) THEN DispatchNavigate(low)
       ELSE IF Contains(low, Fill) THEN DispatchFill(low)
       ELSE IF Contains(low, Extract) THEN Action("extract", <<>>)
       ELSE NoAction

\* The if/elif chain of on_message.
Dispatch(response) ==
    LET low == Lower(response)
    IN IF Contains(low, NavigateTo) THEN DispatchNavigate(low)
       ELSE IF Contains(low, Click) THEN DispatchClick(low)
       ELSE IF Contains(low, Fill) THEN DispatchFill(low)
       ELSE IF Contains(low, Extract) THEN Action("extract", <<>>)
       ELSE NoAction

\* The trigger phrases in the order on_message tests them, each with the
\* wrapper operation that belongs to it.
Triggers ==
    << [phrase |-> NavigateTo, op |-> "navigate"],
       [phrase |-> Click, op |-> "click"],
       [phrase |-> Fill, op |-> "fill"],
       [phrase |-> Extract, op |-> "extract"] >>

\* The trigger phrases that occur in a text, by their places in Triggers.
TriggersIn(low) == {i \in 1..Len(Triggers) : Contains(low, Triggers[i].phrase)}

(* ------------------------------------------------------------------ *)
(* Inputs                                                              *)
(* ------------------------------------------------------------------ *)

Pieces ==
    { NavigateTo, Click, <<"F","i","l","l">>, With, Extract,
      <<" ">>, <<".">> }

RECURSIVE Texts(_)
\* The texts put together from at most n pieces.
Texts(n) ==
    IF n = 0 THEN {<<>>}
    ELSE Texts(n - 1) \cup {s \o p : s \in Texts(n - 1), p \in Pieces}

\* The LLM responses on_message is given.
Responses == Texts(MaxPieces)

\* What on_message reads in response r: whether r.strip() is empty, the
\* trigger phrases in the lower-cased response, and the action it takes.
Reading(r) == [blank |-> Blank(r), found |-> TriggersIn(Lower(r)), act |-> Dispatch(r)]

\* The readings of the responses on_message is given.
Readings == {Reading(r) : r \in Responses}

\* The URLs navigate is called with by a caller other than on_message.
Urls ==
    { p \o h \o q :
        p \in {<<>>, Http, Https, <<"f","t","p",":","/","/">>},
        h \in {<<>>, <<"a">>},
        q \in {<<>>, <<"/">>} }

\* The arguments operation o is called with.
ArgsOf(o) == IF o = "navigate" THEN Urls ELSE {<<>>}

\* The responses of the handlers that run while another is suspended.
OverlapReadings ==
    {Reading(NavigateTo \o With), Reading(Click \o With), Reading(Extract)}

Tasks == {1, 2}

Ops == {"setup", "navigate", "extract", "click", "fill", "cleanup"}

(* ------------------------------------------------------------------ *)
(* State                                                               *)
(* ------------------------------------------------------------------ *)

VARIABLES
    browser,      \* BrowserTools.browser: the browser's number, 0 for None
    page,         \* BrowserTools.page: the page's number, 0 for None
    playwright,   \* BrowserTools._playwright: the driver's number, 0 for None
    history,      \* how many responses the session's history list holds
    drivers,      \* the drivers started and not stopped
    browsers,     \* the browsers launched and neither closed nor stopped
    pages,        \* the pages created and neither closed nor stopped
    gen,          \* how many drivers were started so far
    cleaned,      \* the wrapper operation called last on the session was cleanup
    task          \* the handlers: where each is suspended, and its locals

vars == <<browser, page, playwright, history, drivers, browsers, pages, gen,
          cleaned, task>>

fields == <<browser, page, playwright>>

world == <<drivers, browsers, pages, gen>>

\* A handler that is not running.
Idle ==
    [ via |-> "none",        \* "message", "end" (on_chat_end), "api" (another caller)
      op |-> "none",         \* the wrapper operation it called
      pc |-> "idle",         \* the driver call it is suspended in
      arg |-> <<>>,          \* the URL given to navigate
      goto |-> <<>>,         \* the URL given to page.goto
      tgt |-> 0,             \* the driver, browser or page the pending call is on
      cont |-> "none",       \* "navigate" when setup runs inside navigate
      calls |-> {},          \* the driver calls the operation has made
      outcome |-> "none",    \* "returned" or "raised"
      exc |-> "none",        \* the exception raised
      found |-> {},          \* the trigger phrases in the lower-cased response
      invoked |-> 0,         \* how many wrapper operations the handler invoked
      stream |-> <<>>,       \* what the handler put on the message stream
      keys |-> {},           \* the keys of extract_content's result so far
      pre |-> <<0, 0, 0>>,   \* browser, page and _playwright as the call began
      afterCleanup |-> FALSE,    \* the call before this one was cleanup
      setupReturned |-> FALSE,   \* setup returned without raising
      escaped |-> FALSE ]    \* an exception left the handler

Free(t) == task[t].pc \in {"idle", "done"}

\* No other handler of the session is running.
Quiet(t) == \A u \in Tasks \ {t} : Free(u)

(* ------------------------------------------------------------------ *)
(* The wrapper's operations, up to their first driver call             *)
(* ------------------------------------------------------------------ *)

\* The operation awaits driver call c on target x.
Await(r, c, x) == [r EXCEPT !.pc = c, !.tgt = x, !.calls = @ \cup {c}]

Return(r) == [r EXCEPT !.pc = "ret", !.outcome = "returned"]

Raise(r, e) == [r EXCEPT !.pc = "ret", !.outcome = "raised", !.exc = e]

\* navigate from the URL check on (lines 113-125), the page being pg.
NavValidate(r, pg) ==
    LET url == PrefixedUrl(r.arg)
    IN IF ~validate_url(url) THEN Raise(r, "NavigationError")
       ELSE IF pg = 0
            THEN Raise([r EXCEPT !.goto = url], "NavigationError")
            ELSE Await([r EXCEPT !.goto = url], "goto", pg)

\* setup returns without raising, to navigate when navigate called it.
SetupReturn(r, pg) ==
    LET q == [r EXCEPT !.setupReturned = TRUE]
    IN IF q.cont = "navigate" THEN NavValidate(q, pg) ELSE Return(q)

\* setup's except clause (lines 87-92), the driver handle being pw.
SetupExcept(r, pw) ==
    IF pw # 0 THEN Await(r, "setup_stop", pw) ELSE Raise(r, "BrowserError")

\* The guard of setup (line 66).
SetupNeeded(br) == br = 0

EnterSetup(r, br, pg) ==
    IF SetupNeeded(br) THEN Await(r, "start", 0) ELSE SetupReturn(r, pg)

EnterNavigate(r, br, pg) ==
    IF pg = 0 THEN EnterSetup([r EXCEPT !.cont = "navigate"], br, pg)
    ELSE NavValidate(r, pg)

EnterExtract(r, pg) ==
    IF pg = 0 THEN Raise(r, "BrowserError") ELSE Await(r, "title", pg)

EnterClick(r, pg) ==
    IF pg = 0 THEN Raise(r, "BrowserError") ELSE Await(r, "click", pg)

EnterFill(r, pg) ==
    IF pg = 0 THEN Raise(r, "BrowserError") ELSE Await(r, "fill", pg)

\* A slip in the guard: cleanup runs while any handle is held.
CleanupNeededAnyHandle(br, pw) == br # 0 \/ pw # 0

\* The guard of cleanup (line 96).
CleanupNeeded(br, pw) == br # 0

EnterCleanup(r, br, pw) ==
    IF CleanupNeeded(br, pw) THEN Await(r, "close", br) ELSE Return(r)

\* The call of operation o with argument a by a handler, run to its first
\* driver call.
Enter(r, o, a) ==
    LET q == [r EXCEPT !.op = o, !.arg = IF o = "navigate" THEN a ELSE <<>>,
                       !.invoked = @ + 1,
                       !.pre = <<browser, page, playwright>>,
                       !.afterCleanup = cleaned]
    IN CASE o = "setup" -> EnterSetup(q, browser, page)
         [] o = "navigate" -> EnterNavigate(q, browser, page)
         [] o = "extract" -> EnterExtract(q, page)
         [] o = "click" -> EnterClick(q, page)
         [] o = "fill" -> EnterFill(q, page)
         [] o = "cleanup" -> EnterCleanup(q, browser, playwright)

(* ------------------------------------------------------------------ *)
(* Handlers start                                                      *)
(* ------------------------------------------------------------------ *)

Init ==
    /\ browser = 0 /\ page = 0 /\ playwright = 0
    /\ history = 0
    /\ drivers = {} /\ browsers = {} /\ pages = {}
    /\ gen = 0
    /\ cleaned = FALSE
    /\ task = [t \in Tasks |-> Idle]

\* on_message with an LLM response read as c: lines 102-155, to the first
\* driver call.
OnMessage(t, c) ==
    /\ Free(t)
    /\ history < MaxHistory
    /\ LET d == c.act
           m == [Idle EXCEPT !.via = "message", !.stream = <<"tokens">>,
                             !.found = c.found]
       IN /\ task' = [task EXCEPT ![t] =
                IF c.blank THEN [Idle EXCEPT !.via = "message", !.pc = "done",
                                             !.stream = <<"apology">>]
                ELSE IF d.err THEN Raise(m, "IndexError")
                ELSE IF d.op = "none" THEN Return(m)
                ELSE Enter(m, d.op, d.arg)]
          /\ cleaned' = IF c.blank \/ d.op = "none" THEN cleaned ELSE d.op = "cleanup"
    /\ UNCHANGED <<fields, history, world>>

\* on_chat_end: lines 166-170.
OnChatEnd(t) ==
    /\ Free(t)
    /\ task' = [task EXCEPT ![t] = Enter([Idle EXCEPT !.via = "end"], "cleanup", <<>>)]
    /\ cleaned' = TRUE
    /\ UNCHANGED <<fields, history, world>>

\* A call of a public method by another caller (__aenter__, __aexit__, a
\* script using the class).
Call(t, o, u) ==
    /\ Free(t)
    /\ task' = [task EXCEPT ![t] = Enter([Idle EXCEPT !.via = "api"], o, u)]
    /\ cleaned' = (o = "cleanup")
    /\ UNCHANGED <<fields, history, world>>

(* ------------------------------------------------------------------ *)
(* Driver calls complete                                               *)
(* ------------------------------------------------------------------ *)

Set(t, r) == task' = [task EXCEPT ![t] = r]

\* async_playwright().start() completes (line 69); launch is called (71).
SetupStarted(t, ok) ==
    /\ task[t].pc = "start"
    /\ IF ok
       THEN /\ gen < MaxGen
            /\ gen' = gen + 1
            /\ drivers' = drivers \cup {gen + 1}
            /\ playwright' = gen + 1
            /\ Set(t, Await(task[t], "launch", gen + 1))
       ELSE /\ Set(t, SetupExcept(task[t], playwright))
            /\ UNCHANGED <<playwright, drivers, gen>>
    /\ UNCHANGED <<browser, page, history, browsers, pages, cleaned>>

\* chromium.launch completes (line 71); new_page is called (81).
SetupLaunched(t, ok) ==
    /\ task[t].pc = "launch"
    /\ IF ok
       THEN /\ task[t].tgt \in drivers
            /\ browsers' = browsers \cup {task[t].tgt}
            /\ browser' = task[t].tgt
            /\ Set(t, Await(task[t], "new_page", task[t].tgt))
       ELSE /\ Set(t, SetupExcept(task[t], playwright))
            /\ UNCHANGED <<browser, browsers>>
    /\ UNCHANGED <<page, playwright, history, drivers, pages, gen, cleaned>>

\* new_page completes (line 81), then set_default_timeout and the event
\* handlers (82-86): setup returns, or its except clause runs.
SetupPaged(t, ok, timeoutOk) ==
    /\ task[t].pc = "new_page"
    /\ IF ok
       THEN /\ task[t].tgt \in browsers
            /\ pages' = pages \cup {task[t].tgt}
            /\ page' = task[t].tgt
            /\ Set(t, IF timeoutOk THEN SetupReturn(task[t], task[t].tgt)
                      ELSE SetupExcept(task[t], playwright))
       ELSE /\ timeoutOk
            /\ Set(t, SetupExcept(task[t], playwright))
            /\ UNCHANGED <<page, pages>>
    /\ UNCHANGED <<browser, playwright, history, drivers, browsers, gen, cleaned>>

\* The driver x stops, and its browser and page with it.
Stopped(x) ==
    /\ drivers' = drivers \ {x}
    /\ browsers' = browsers \ {x}
    /\ pages' = pages \ {x}

\* _playwright.stop() of the except clause completes (lines 90-92); when it
\* raises, its exception leaves setup in place of BrowserError.
SetupStopped(t, ok) ==
    /\ task[t].pc = "setup_stop"
    /\ IF ok
       THEN /\ Stopped(task[t].tgt)
            /\ playwright' = 0
            /\ Set(t, Raise(task[t], "BrowserError"))
       ELSE /\ Set(t, Raise(task[t], "Error"))
            /\ UNCHANGED <<playwright, drivers, browsers, pages>>
    /\ UNCHANGED <<browser, page, history, gen, cleaned>>

\* browser.close() completes (lines 98-100, its exception swallowed), then
\* the finally clause (101-105).
CleanupClosed(t, ok) ==
    /\ task[t].pc = "close"
    /\ IF ok
       THEN /\ browsers' = browsers \ {task[t].tgt}
            /\ pages' = pages \ {task[t].tgt}
       ELSE UNCHANGED <<browsers, pages>>
    /\ browser' = 0
    /\ page' = 0
    /\ Set(t, IF playwright # 0 THEN Await(task[t], "cleanup_stop", playwright)
              ELSE Return(task[t]))
    /\ UNCHANGED <<playwright, history, drivers, gen, cleaned>>

\* _playwright.stop() of the finally clause completes (lines 105-106).
CleanupStopped(t, ok) ==
    /\ task[t].pc = "cleanup_stop"
    /\ IF ok
       THEN /\ Stopped(task[t].tgt)
            /\ playwright' = 0
            /\ Set(t, Return(task[t]))
       ELSE /\ Set(t, Raise(task[t], "Error"))
            /\ UNCHANGED <<playwright, drivers, browsers, pages>>
    /\ UNCHANGED <<browser, page, history, gen, cleaned>>

GotoResults == {"ok", "no response", "status", "timeout", "error"}

\* page.goto completes (lines 121-131); wait_for_load_state is called (134).
NavigateWent(t, res) ==
    /\ task[t].pc = "goto"
    /\ res = "ok" => task[t].tgt \in pages
    /\ Set(t, IF res # "ok" \/ page = 0 THEN Raise(task[t], "NavigationError")
              ELSE Await(task[t], "load", page))
    /\ UNCHANGED <<fields, history, world, cleaned>>

\* wait_for_load_state completes (lines 134-141).
NavigateLoaded(t, ok) ==
    /\ task[t].pc = "load"
    /\ ok => task[t].tgt \in pages
    /\ Set(t, IF ok THEN Return(task[t]) ELSE Raise(task[t], "NavigationError"))
    /\ UNCHANGED <<fields, history, world, cleaned>>

\* A slip in the result: the page's text is left out.
ExtractNextWithoutText(c) ==
    CASE c = "title" -> "main_content"
      [] c = "text" -> "main_content"
      [] c = "main_content" -> "links"
      [] c = "links" -> "end"

\* The awaited parts of extract_content's result, in order (lines 150-169).
ExtractNext(c) ==
    CASE c = "title" -> "text"
      [] c = "text" -> "main_content"
      [] c = "main_content" -> "links"
      [] c = "links" -> "end"

\* One part of the result arrives (lines 151-168); without selectors the
\* result is returned after the last (179).
ExtractGot(t, ok) ==
    LET r == task[t]
        got == [r EXCEPT !.keys = @ \cup (IF r.pc = "title" THEN {"title", "url"}
                                          ELSE {r.pc})]
    IN /\ r.pc \in {"title", "text", "main_content", "links"}
       /\ ok => r.tgt \in pages
       /\ Set(t, IF ~ok \/ page = 0 THEN Raise(r, "ContentExtractionError")
                 ELSE IF ExtractNext(r.pc) = "end" THEN Return(got)
                 ELSE Await(got, ExtractNext(r.pc), page))
       /\ UNCHANGED <<fields, history, world, cleaned>>

\* page.click or page.fill completes (lines 197-203, 219-225).
ClickDone(t, ok) ==
    /\ task[t].pc \in {"click", "fill"}
    /\ ok => task[t].tgt \in pages
    /\ Set(t, IF ok THEN Return(task[t]) ELSE Raise(task[t], "BrowserError"))
    /\ UNCHANGED <<fields, history, world, cleaned>>

(* ------------------------------------------------------------------ *)
(* Handlers end                                                        *)
(* ------------------------------------------------------------------ *)

\* on_message catches BrowserError and its subclasses only.
CaughtBrowserErrorOnly(e) == e \in {"BrowserError", "NavigationError", "ContentExtractionError"}

\* The exceptions "except Exception" of on_message catches (line 161).
Caught(e) == e \in {"BrowserError", "NavigationError", "ContentExtractionError",
                    "IndexError", "Error"}

\* The rest of on_message once the operation is over (lines 136-163), and
\* the end of the other callers.
Finish(t) ==
    LET r == task[t]
        done == [Idle EXCEPT !.pc = "done", !.via = r.via, !.outcome = r.outcome,
                             !.exc = r.exc, !.stream = r.stream]
    IN /\ r.pc = "ret"
       /\ IF r.via = "message"
          THEN IF r.outcome = "returned"
               THEN /\ Set(t, [done EXCEPT !.stream =
                            IF r.op = "none" THEN @ ELSE Append(@, "result")])
                    /\ history' = history + 1
               ELSE /\ Set(t, IF Caught(r.exc)
                              THEN [done EXCEPT !.stream = Append(@, "error")]
                              ELSE [done EXCEPT !.escaped = TRUE])
                    /\ UNCHANGED history
          ELSE /\ Set(t, [done EXCEPT !.escaped = (r.outcome = "raised")])
               /\ UNCHANGED history
       /\ UNCHANGED <<fields, world, cleaned>>

(* ------------------------------------------------------------------ *)
(* Specifications                                                      *)
(* ------------------------------------------------------------------ *)

Step(t) ==
    \/ \E ok \in BOOLEAN : SetupStarted(t, ok)
    \/ \E ok \in BOOLEAN : SetupLaunched(t, ok)
    \/ \E ok, timeoutOk \in BOOLEAN : SetupPaged(t, ok, timeoutOk)
    \/ \E ok \in BOOLEAN : SetupStopped(t, ok)
    \/ \E ok \in BOOLEAN : CleanupClosed(t, ok)
    \/ \E ok \in BOOLEAN : CleanupStopped(t, ok)
    \/ \E res \in GotoResults : NavigateWent(t, res)
    \/ \E ok \in BOOLEAN : NavigateLoaded(t, ok)
    \/ \E ok \in BOOLEAN : ExtractGot(t, ok)
    \/ \E ok \in BOOLEAN : ClickDone(t, ok)
    \/ Finish(t)

\* One call at a time on the session: a handler starts when no other runs.
Next ==
    \/ \E c \in Readings : Quiet(1) /\ OnMessage(1, c)
    \/ Quiet(1) /\ OnChatEnd(1)
    \/ \E o \in Ops : \E u \in ArgsOf(o) : Quiet(1) /\ Call(1, o, u)
    \/ Step(1)

Spec == Init /\ [][Next]_vars

\* The handlers of one session as the chat framework runs them: each event
\* (a message, the end of the chat) gets a handler of its own on the event
\* loop, started while another may be suspended in a driver call.
NextOverlap ==
    \/ \E t \in Tasks : \E c \in OverlapReadings : OnMessage(t, c)
    \/ \E t \in Tasks : OnChatEnd(t)
    \/ \E t \in Tasks : Step(t)

SpecOverlap == Init /\ [][NextOverlap]_vars

(* ------------------------------------------------------------------ *)
(* Properties                                                          *)
(* ------------------------------------------------------------------ *)

\* C1: at most one browser and at most one page created by the session are
\* live, whatever calls were made and whichever driver steps failed.
C1_AtMostOneLive == Cardinality(browsers) <= 1 /\ Cardinality(pages) <= 1

\* C2: navigate with a URL that fails validation raises, and makes no driver
\* call before it does.
C2_InvalidUrlNoDriverCall ==
    \A t \in Tasks :
        (task[t].op = "navigate" /\ ~validate_url(PrefixedUrl(task[t].arg)))
            => /\ task[t].calls = {}
               /\ task[t].pc = "ret"
               /\ task[t].outcome = "raised"

\* C3 as stated: extract_content without selectors, called by on_message,
\* returns a result with the keys title, url and text in every session state.
C3_ExtractAlwaysReturnsKeys ==
    \A t \in Tasks :
        (task[t].via = "message" /\ task[t].op = "extract" /\ task[t].pc = "ret")
            => /\ task[t].outcome = "returned"
               /\ {"title", "url", "text"} \subseteq task[t].keys

\* C3 as amended: on a session that holds no page extract_content raises
\* BrowserError; on one that holds a page it returns a result with the keys
\* title, url and text, unless a call on the page fails, and then it raises
\* ContentExtractionError.
C3_ExtractReturnsKeysOrRaises ==
    \A t \in Tasks :
        (task[t].op = "extract" /\ task[t].pc = "ret")
            => IF task[t].pre[2] = 0
               THEN task[t].outcome = "raised" /\ task[t].exc = "BrowserError"
               ELSE \/ /\ task[t].outcome = "returned"
                       /\ {"title", "url", "text"} \subseteq task[t].keys
                    \/ /\ task[t].outcome = "raised"
                       /\ task[t].exc = "ContentExtractionError"

\* on_message has called extract_content on a session with a page, and it
\* has returned its result.
C3_Witness ==
    \E t \in Tasks :
        /\ task[t].via = "message"
        /\ task[t].op = "extract"
        /\ task[t].pc = "ret"
        /\ task[t].outcome = "returned"
        /\ {"title", "url", "text"} \subseteq task[t].keys

\* C4: on_message invokes at most one wrapper operation, and an operation it
\* invokes is the one of the first trigger phrase, in the order tested, that
\* occurs in the lower-cased response.
C4_FirstTriggerOnly ==
    \A t \in Tasks :
        task[t].via = "message"
            => /\ task[t].invoked <= 1
               /\ task[t].invoked = 1 <=> task[t].op # "none"
               /\ task[t].op # "none"
                    => /\ task[t].found # {}
                       /\ task[t].op = Triggers[Min(task[t].found)].op

\* A response with "click" and "extract" in it and no "navigate to": click
\* was invoked and has returned.
C4_Witness ==
    \E t \in Tasks :
        /\ task[t].via = "message"
        /\ task[t].found = {2, 4}
        /\ task[t].op = "click"
        /\ task[t].pc = "ret"
        /\ task[t].outcome = "returned"

\* C5: an error raised by the wrapper operation on_message invoked, or while
\* the argument was taken out of the response, never leaves on_message: it
\* ends as an error string at the end of the message stream.
C5_ErrorsCaught ==
    \A t \in Tasks :
        (task[t].via = "message" /\ task[t].pc = "done")
            => /\ ~task[t].escaped
               /\ task[t].outcome = "raised"
                    => task[t].stream = <<"tokens", "error">>

\* on_message has ended after the argument could not be taken out of the
\* response.
C5_Witness ==
    \E t \in Tasks :
        /\ task[t].via = "message"
        /\ task[t].pc = "done"
        /\ task[t].exc = "IndexError"
        /\ task[t].stream = <<"tokens", "error">>

\* C6: cleanup never raises, and when it is over the session holds no
\* browser, no page and no driver handle.
C6_CleanupNeverRaises ==
    \A t \in Tasks :
        (task[t].op = "cleanup" /\ task[t].pc = "ret")
            => /\ task[t].outcome = "returned"
               /\ browser = 0 /\ page = 0 /\ playwright = 0

\* C7: cleanup right after cleanup makes no driver call, leaves browser, page
\* and driver handle as they were, and raises nothing.
C7_CleanupTwice ==
    \A t \in Tasks :
        (task[t].op = "cleanup" /\ task[t].afterCleanup)
            => /\ task[t].calls = {}
               /\ task[t].pc = "ret"
               /\ task[t].outcome = "returned"
               /\ <<browser, page, playwright>> = task[t].pre

\* A second cleanup is over on a session that had started a driver.
C7_Witness ==
    \E t \in Tasks :
        /\ task[t].op = "cleanup"
        /\ task[t].afterCleanup
        /\ task[t].pc = "ret"
        /\ gen > 0

\* Two setup calls have each launched a browser.
TwoSetupsLaunched ==
    \E t, u \in Tasks : t # u /\ task[t].pc = "new_page" /\ task[u].pc = "new_page"

\* The page is cleared while an operation is suspended in a call on it.
PageClearedUnderOperation ==
    \E t \in Tasks :
        /\ task[t].pc \in {"goto", "load", "title", "text", "main_content",
                           "links", "click", "fill"}
        /\ page = 0

\* C8: the handlers of one session never overlap in their browser operations:
\* two setup calls never both launch a browser, and cleanup never clears the
\* page under a suspended navigate, click, fill_form or extract_content.
C8_NoInterference == ~TwoSetupsLaunched /\ ~PageClearedUnderOperation

\* C9: the URL passed to page.goto is "https://" followed by the given URL
\* exactly when the given URL has no scheme, and the given URL otherwise.
C9_PrefixIffNoScheme ==
    \A t \in Tasks :
        task[t].goto # <<>>
            => task[t].goto = IF UrlScheme(task[t].arg) = <<>>
                              THEN Https \o task[t].arg
                              ELSE task[t].arg

\* C10: when setup has returned without raising, the session holds a browser
\* and a page, and their driver is running.
C10_SetupReturnsReady ==
    \A t \in Tasks :
        task[t].setupReturned
            => browser # 0 /\ page # 0 /\ playwright \in drivers

====
